---- MODULE Spec2Model ----
(***************************************************************************)
(* A model of fedlab_core/communicator/processor.py: PackageProcessor's    *)
(* three-phase wire protocol (header, slices, content) over the blocking   *)
(* point-to-point primitives dist.send / dist.recv, together with the      *)
(* Package encode / decode functions it calls.                             *)
(*                                                                         *)
(* Every rank is one single-threaded process that builds packages and      *)
(* calls send_package / recv_package.  A call is a sequence of atomic      *)
(* steps, one per dist.send / dist.recv, so that calls of different ranks  *)
(* interleave at the channel operations.  The channel keeps one FIFO queue *)
(* of tensors per ordered pair of ranks.                                   *)
(*                                                                         *)
(* Header fields are stored in a float32 tensor; all values used here are  *)
(* far below 2^24, where float32 holds integers exactly.                   *)
(***************************************************************************)
EXTENDS Integers, Sequences, FiniteSets, TLC

VARIABLES
    pkg,      \* pkg[r]: the Package object thread r holds (header, slices, content)
    built,    \* ghost: the buffer list pkg[r] was built from
    chan,     \* chan[s][d]: tensors sent by s to d and not yet received, in order
    pc,       \* pc[r]: where rank r stands in its current call
    loc,      \* loc[r]: the local variables of rank r's current call
    ops,      \* ops[r]: the channel operations of rank r's current or last call
    ret,      \* ret[r]: what rank r's last call returned or raised
    sent,     \* ghost: sent[s][d], the packages s has started to send to d
    nrecv,    \* ghost: nrecv[d][s], how many receives at d took their header from s
    counts,   \* how many builds, sends and receives have been started, and
              \* how many calls have raised
    arg,      \* the input of a pure Package function (SpecParse)
    out       \* its result (SpecParse)

vars == <<pkg, built, chan, pc, loc, ops, ret, sent, nrecv, counts, arg, out>>

protoVars == <<pkg, built, chan, pc, loc, ops, ret, sent, nrecv, counts>>

---------------------------------------------------------------------------
(* Bounds and input sets *)

\* How many calls (builds, send_package, recv_package) the ranks make in all.
MaxCalls == 6

MaxBuffers == 2

MaxBufLen == 2

Ranks == {0, 1, 2}

\* The threads of control: one per rank, named by its rank, and a second
\* thread, 3, of rank 0.  The second thread runs only in SpecThreads.
Procs == {0, 1, 2, 3}

RankOf(p) == IF p \in Ranks THEN p ELSE 0

\* The ranks that build and send packages, and the ranks that receive them.
Senders == {0, 1}

Receivers == {1, 2}

MessageCodes == {7, 99}

Values == {1, 2}

\* The src=None default of recv_package: receive from any source.
ANY == -1

\* Python's None and a present value: an absent buffer list or content.
None == [is_none |-> TRUE, value |-> <<>>]

Some(v) == [is_none |-> FALSE, value |-> v]

\* What the protocol runs build packages from, a buffer list and a message
\* code: no list, the empty list, the two buffers [[1,2,3],[4,5]], and one
\* single buffer.
BuildInputs ==
    { [buffers |-> None, message_code |-> 99],
      [buffers |-> Some(<<>>), message_code |-> 7],
      [buffers |-> Some(<<<<1, 2, 3>>, <<4, 5>>>>), message_code |-> 7],
      [buffers |-> Some(<<<<6>>>>), message_code |-> 99] }

---------------------------------------------------------------------------
(* Package: header layout, build, parse_header, parse_content *)

HEADER_SIZE == 4

HEADER_SENDER_RANK_IDX == 1

HEADER_RECEIVER_RANK_IDX == 2

HEADER_SLICE_SIZE_IDX == 3

HEADER_MESSAGE_CODE_IDX == 4

\* The placeholder receiver_rank holds until send time.
Unset == -1

NoError == "none"

InvalidInput == "InvalidInput"

MalformedHeader == "MalformedHeader"

LengthMismatch == "LengthMismatch"

ChannelFailure == "ChannelFailure"

\* A function's result: a value, or the error it raised.
Ok(v) == [error |-> NoError, value |-> v]

Err(e) == [error |-> e, value |-> <<>>]

RECURSIVE Sum(_)
Sum(s) == IF s = <<>> THEN 0 ELSE Head(s) + Sum(Tail(s))

\* boundaries[i] = length(buffers[i])
boundaries_of(buffers) == [i \in 1..Len(buffers) |-> Len(buffers[i])]

\* payload = concat(buffers), in order
RECURSIVE flatten(_)
flatten(buffers) ==
    IF buffers = <<>> THEN <<>> ELSE Head(buffers) \o flatten(Tail(buffers))

\* build(buffers, sender_rank, message_code): buffers is None or Some(list).
build(buffers, sender_rank, message_code) ==
    IF buffers.is_none \/ buffers.value = <<>>
    THEN Ok([header  |-> <<sender_rank, Unset, 0, message_code>>,
             slices  |-> <<>>,
             content |-> <<>>])
    ELSE IF \E i \in 1..Len(buffers.value) : Len(buffers.value[i]) <= 0
    THEN Err(InvalidInput)
    ELSE Ok([header  |-> <<sender_rank, Unset, Len(buffers.value), message_code>>,
             slices  |-> boundaries_of(buffers.value),
             content |-> flatten(buffers.value)])

parse_header(buffer) ==
    IF Len(buffer) # HEADER_SIZE
    THEN Err(MalformedHeader)
    ELSE Ok(<<buffer[HEADER_SENDER_RANK_IDX], buffer[HEADER_RECEIVER_RANK_IDX],
              buffer[HEADER_SLICE_SIZE_IDX], buffer[HEADER_MESSAGE_CODE_IDX]>>)

\* Mutant of split: the index is not advanced.
RECURSIVE split_no_advance(_, _, _)
split_no_advance(slices, content, index) ==
    IF slices = <<>>
    THEN <<>>
    ELSE <<SubSeq(content, index + 1, index + Head(slices))>>
         \o split_no_advance(Tail(slices), content, index)

\* The consecutive slices of content, of lengths slices[1], slices[2], ...,
\* the first starting at index.
RECURSIVE split(_, _, _)
split(slices, content, index) ==
    IF slices = <<>>
    THEN <<>>
    ELSE <<SubSeq(content, index + 1, index + Head(slices))>>
         \o split(Tail(slices), content, index + Head(slices))

\* Mutant of parse_content: only a payload that is too short is rejected.
parse_content_short_only(slices, content) ==
    IF Sum(slices) > Len(content)
    THEN Err(LengthMismatch)
    ELSE Ok(split(slices, content, 0))

parse_content(slices, content) ==
    IF Sum(slices) # Len(content)
    THEN Err(LengthMismatch)
    ELSE Ok(split(slices, content, 0))

---------------------------------------------------------------------------
(* The channel: dist.send and dist.recv *)

\* Mutant of dist_send: every tensor of a rank joins one queue, whatever its
\* destination.
dist_send_shared(ch, r, dst, tensor) ==
    [ch EXCEPT ![r][1] = Append(@, tensor)]

\* dist.send(tensor, dst) by rank r: the tensor joins the queue from r to dst.
dist_send(ch, r, dst, tensor) ==
    [ch EXCEPT ![r][dst] = Append(@, tensor)]

\* The ranks a dist.recv at rank r with the given src may take a tensor from.
Sources(r, src) == IF src = ANY THEN Ranks \ {r} ELSE {src} \cap (Ranks \ {r})

\* dist.recv into a buffer of `size` elements when `tensor` arrives.  A tensor
\* of the buffer's own size fills it.  What a tensor of another size does
\* depends on the backend: the call fails, or a shorter tensor fills the
\* front of the zero-initialised buffer.
RecvOutcomes(size, tensor) ==
    IF Len(tensor) = size
    THEN {[ok |-> TRUE, buffer |-> tensor]}
    ELSE IF Len(tensor) < size
    THEN {[ok |-> FALSE, buffer |-> <<>>],
          [ok |-> TRUE,
           buffer |-> [i \in 1..size |-> IF i <= Len(tensor) THEN tensor[i] ELSE 0]]}
    ELSE {[ok |-> FALSE, buffer |-> <<>>]}

---------------------------------------------------------------------------
(* PackageProcessor.send_package *)

\* Mutants of send_header: the header goes out as it was built; the
\* destination is written into the sender rank field.
send_header_unstamped(header, dst) == header

send_header_wrong_index(header, dst) == [header EXCEPT ![HEADER_SENDER_RANK_IDX] = dst]

\* send_header: stamp the destination into the header; this is the tensor sent.
send_header(header, dst) == [header EXCEPT ![HEADER_RECEIVER_RANK_IDX] = dst]

\* np.array(slices, dtype=np.int32): an entry outside the 32-bit range wraps.
ToInt32(x) ==
    IF -2147483647 - 1 <= x /\ x <= 2147483647
    THEN x
    ELSE ((x + 32768 * 65536) % (65536 * 65536)) - 32768 * 65536

\* Mutant of send_slices: the entries go out in reverse order.
send_slices_reversed(slices) ==
    [i \in 1..Len(slices) |-> ToInt32(slices[Len(slices) + 1 - i])]

\* send_slices: the int32 tensor sent.
send_slices(slices) == [i \in 1..Len(slices) |-> ToInt32(slices[i])]

\* send_content: the tensor sent.
send_content(content) == content

\* Mutants of SendHasBody: the test is >= 0, the test is # 0, the test is > 1.
SendHasBody_always(header) == header[HEADER_SLICE_SIZE_IDX] >= 0

SendHasBody_many(header) == header[HEADER_SLICE_SIZE_IDX] > 1

SendHasBody_nonzero(header) == header[HEADER_SLICE_SIZE_IDX] # 0

\* if package.header[config.HEADER_SLICE_SIZE_IDX] > 0
SendHasBody(header) == header[HEADER_SLICE_SIZE_IDX] > 0

---------------------------------------------------------------------------
(* PackageProcessor.recv_package *)

\* Mutant of recv_slices: the last entry is dropped.
recv_slices_short(buffer_slices) ==
    [i \in 1..(Len(buffer_slices) - 1) |-> buffer_slices[i]]

\* recv_slices: slices = [x.item() for x in buffer_slices]
recv_slices(buffer_slices) == [i \in 1..Len(buffer_slices) |-> buffer_slices[i]]

\* Mutant of content_size: the content receive asks for as many elements as
\* the slices table has entries.
content_size_count(slices) == Len(slices)

\* recv_content: content_size = sum(slices)
content_size(slices) == Sum(slices)

\* Mutants of RecvHasBody: the test is >= 0, the test is > 1.
RecvHasBody_all(slices_size) == slices_size >= 0

RecvHasBody_many(slices_size) == slices_size > 1

\* if slices_size > 0
RecvHasBody(slices_size) == slices_size > 0

\* Mutants of PinnedSource: any source, and recv_package's own src.
PinnedSource_any(sender_rank, src) == ANY

PinnedSource_caller(sender_rank, src) == src

\* The src the second and third receives are given: the decoded sender_rank,
\* not recv_package's own src.
PinnedSource(sender_rank, src) == sender_rank

\* return sender_rank, message_code, content
ReturnValue(sender_rank, message_code, content) ==
    [sender_rank |-> sender_rank, message_code |-> message_code, content |-> content]

---------------------------------------------------------------------------
(* State *)

Calls == counts.builds + counts.sends + counts.recvs

NoPackage == [header |-> <<>>, slices |-> <<>>, content |-> <<>>]

NoLoc == [src |-> -1, dst |-> -1, from |-> -1, header |-> <<>>,
          sender_rank |-> -1, slices_size |-> 0, message_code |-> -1,
          slices |-> <<>>]

NoRet == [kind |-> "none", error |-> NoError, dst |-> -1, src |-> -1,
          from |-> -1, header |-> <<>>, slices |-> <<>>, payload |-> <<>>,
          sender_rank |-> -1, message_code |-> -1, content |-> None]

\* One channel operation of a call, as ops records it: the phase, the size of
\* the tensor or buffer passed, the dst or src passed, the rank the tensor
\* came from, and the tensor sent or the tensor that arrived.
SendOp(phase, tensor, dst) ==
    [op |-> "send", phase |-> phase, size |-> Len(tensor), peer |-> dst,
     from |-> -1, tensor |-> tensor]

RecvOp(phase, size, src, from, tensor) ==
    [op |-> "recv", phase |-> phase, size |-> size, peer |-> src,
     from |-> from, tensor |-> tensor]

\* A dist.send or dist.recv that raised: nothing was transferred.
FailedOp(op, phase, size, peer) ==
    [op |-> op, phase |-> phase, size |-> size, peer |-> peer,
     from |-> -1, tensor |-> <<>>]

\* What a receiver is to obtain for a package built from `buffers`.
Expected(buffers) ==
    IF buffers.is_none \/ buffers.value = <<>> THEN None ELSE buffers

ProtoInit ==
    /\ pkg = [r \in Procs |-> NoPackage]
    /\ built = [r \in Procs |-> None]
    /\ chan = [s \in Ranks |-> [d \in Ranks |-> <<>>]]
    /\ pc = [r \in Procs |-> "idle"]
    /\ loc = [r \in Procs |-> NoLoc]
    /\ ops = [r \in Procs |-> <<>>]
    /\ ret = [r \in Procs |-> NoRet]
    /\ sent = [s \in Ranks |-> [d \in Ranks |-> <<>>]]
    /\ nrecv = [d \in Ranks |-> [s \in Ranks |-> 0]]
    /\ counts = [builds |-> 0, sends |-> 0, recvs |-> 0, raised |-> 0]

Init ==
    /\ ProtoInit
    /\ arg = [kind |-> "none", buffers |-> <<>>, slices |-> <<>>, content |-> <<>>]
    /\ out = [kind |-> "none", result |-> Ok(<<>>)]

---------------------------------------------------------------------------
(* Actions *)

\* Thread r builds a package from a buffer list, a sender rank and a message
\* code.
BuildWith(r, buffers, sender_rank, message_code) ==
    /\ pc[r] = "idle"
    /\ RankOf(r) \in Senders
    /\ Calls < MaxCalls
    /\ LET b == build(buffers, sender_rank, message_code) IN
        IF b.error = NoError
        THEN /\ pkg' = [pkg EXCEPT ![r] = b.value]
             /\ built' = [built EXCEPT ![r] = buffers]
             /\ ret' = [ret EXCEPT ![r] = NoRet]
        ELSE /\ ret' = [ret EXCEPT ![r] = [NoRet EXCEPT !.kind = "error",
                                                        !.error = b.error]]
             /\ UNCHANGED <<pkg, built>>
    /\ counts' = [counts EXCEPT !.builds = @ + 1]
    /\ UNCHANGED <<chan, pc, loc, ops, sent, nrecv, arg, out>>

\* Thread r builds a package whose header carries its own rank as sender_rank.
Build(r, buffers, message_code) ==
    BuildWith(r, buffers, RankOf(r), message_code)

\* The caller's duty: packages to one destination are sent one after the
\* other, so no other thread of r's rank is sending to dst.
Serialized(r, dst) ==
    \A q \in Procs \ {r} :
        RankOf(q) = RankOf(r) =>
            ~(pc[q] \in {"send_slices", "send_content"} /\ loc[q].dst = dst)

\* send_package(package, dst) up to the return of send_header: the header is
\* stamped in place and sent.
SendHeader(r, dst) ==
    /\ pc[r] = "idle"
    /\ pkg[r] # NoPackage
    /\ dst \in Receivers \ {RankOf(r)}
    /\ Serialized(r, dst)
    /\ Calls < MaxCalls
    /\ LET header == send_header(pkg[r].header, dst) IN
        /\ pkg' = [pkg EXCEPT ![r].header = header]
        /\ chan' = dist_send(chan, RankOf(r), dst, header)
        /\ ops' = [ops EXCEPT ![r] = <<SendOp("header", header, dst)>>]
        /\ sent' = [sent EXCEPT ![RankOf(r)][dst] =
                      Append(@, [sender_rank  |-> pkg[r].header[HEADER_SENDER_RANK_IDX],
                                 message_code |-> pkg[r].header[HEADER_MESSAGE_CODE_IDX],
                                 content      |-> Expected(built[r])])]
        /\ IF SendHasBody(header)
           THEN /\ pc' = [pc EXCEPT ![r] = "send_slices"]
                /\ ret' = [ret EXCEPT ![r] = NoRet]
           ELSE /\ pc' = [pc EXCEPT ![r] = "idle"]
                /\ ret' = [ret EXCEPT ![r] = [NoRet EXCEPT !.kind = "send", !.dst = dst]]
    /\ loc' = [loc EXCEPT ![r] = [NoLoc EXCEPT !.dst = dst]]
    /\ counts' = [counts EXCEPT !.sends = @ + 1]
    /\ UNCHANGED <<built, nrecv, arg, out>>

\* send_slices(slices=package.slices, dst=dst)
SendSlices(r) ==
    /\ pc[r] = "send_slices"
    /\ LET tensor_slices == send_slices(pkg[r].slices) IN
        /\ chan' = dist_send(chan, RankOf(r), loc[r].dst, tensor_slices)
        /\ ops' = [ops EXCEPT ![r] = Append(@, SendOp("slices", tensor_slices, loc[r].dst))]
    /\ pc' = [pc EXCEPT ![r] = "send_content"]
    /\ UNCHANGED <<pkg, built, loc, ret, sent, nrecv, counts, arg, out>>

\* send_content(content=package.content, dst=dst), and the return.
SendContent(r) ==
    /\ pc[r] = "send_content"
    /\ LET content == send_content(pkg[r].content) IN
        /\ chan' = dist_send(chan, RankOf(r), loc[r].dst, content)
        /\ ops' = [ops EXCEPT ![r] = Append(@, SendOp("content", content, loc[r].dst))]
    /\ pc' = [pc EXCEPT ![r] = "idle"]
    /\ ret' = [ret EXCEPT ![r] = [NoRet EXCEPT !.kind = "send", !.dst = loc[r].dst]]
    /\ loc' = [loc EXCEPT ![r] = NoLoc]
    /\ UNCHANGED <<pkg, built, sent, nrecv, counts, arg, out>>

\* recv_package(src) is called: src is a sending rank, or None for any source.
RecvCall(r, src) ==
    /\ pc[r] = "idle"
    /\ r \in Receivers
    /\ src \in (Senders \ {r}) \cup {ANY}
    /\ Calls < MaxCalls
    /\ pc' = [pc EXCEPT ![r] = "recv_header"]
    /\ loc' = [loc EXCEPT ![r] = [NoLoc EXCEPT !.src = src]]
    /\ ops' = [ops EXCEPT ![r] = <<>>]
    /\ ret' = [ret EXCEPT ![r] = NoRet]
    /\ counts' = [counts EXCEPT !.recvs = @ + 1]
    /\ UNCHANGED <<pkg, built, chan, sent, nrecv, arg, out>>

\* Mutant of Raise: the error is caught and recv_package returns what it has
\* decoded so far, with content None.
Raise_swallowed(r, e) ==
    /\ pc' = [pc EXCEPT ![r] = "idle"]
    /\ ret' = [ret EXCEPT ![r] = [NoRet EXCEPT !.kind = "recv",
                                               !.src = loc[r].src,
                                               !.from = loc[r].from,
                                               !.header = loc[r].header,
                                               !.sender_rank = loc[r].sender_rank,
                                               !.message_code = loc[r].message_code]]
    /\ loc' = [loc EXCEPT ![r] = NoLoc]
    /\ counts' = [counts EXCEPT !.raised = @ + 1]

\* The call at rank r raises error e.
Raise(r, e) ==
    /\ pc' = [pc EXCEPT ![r] = "idle"]
    /\ ret' = [ret EXCEPT ![r] = [NoRet EXCEPT !.kind = "error", !.error = e,
                                               !.src = loc[r].src,
                                               !.from = loc[r].from]]
    /\ loc' = [loc EXCEPT ![r] = NoLoc]
    /\ counts' = [counts EXCEPT !.raised = @ + 1]

\* recv_package returns.
Return(r, from, header, slices, payload, rv) ==
    /\ pc' = [pc EXCEPT ![r] = "idle"]
    /\ ret' = [ret EXCEPT ![r] = [NoRet EXCEPT !.kind = "recv",
                                               !.src = loc[r].src,
                                               !.from = from,
                                               !.header = header,
                                               !.slices = slices,
                                               !.payload = payload,
                                               !.sender_rank = rv.sender_rank,
                                               !.message_code = rv.message_code,
                                               !.content = rv.content]]
    /\ loc' = [loc EXCEPT ![r] = NoLoc]
    /\ UNCHANGED counts

\* recv_header(src=src): the header arrives and is parsed; with no slices to
\* follow recv_package returns content None.
RecvHeader(r) ==
    /\ pc[r] = "recv_header"
    /\ \E s \in Sources(r, loc[r].src) :
        /\ chan[s][r] # <<>>
        /\ chan' = [chan EXCEPT ![s][r] = Tail(@)]
        /\ ops' = [ops EXCEPT ![r] = Append(@, RecvOp("header", HEADER_SIZE, loc[r].src, s,
                                                   Head(chan[s][r])))]
        /\ nrecv' = [nrecv EXCEPT ![r][s] = @ + 1]
        /\ \E o \in RecvOutcomes(HEADER_SIZE, Head(chan[s][r])) :
            IF ~o.ok
            THEN Raise(r, ChannelFailure)
            ELSE LET h == parse_header(o.buffer) IN
                 IF h.error # NoError
                 THEN Raise(r, h.error)
                 ELSE LET sender_rank  == h.value[1]
                          slices_size  == h.value[3]
                          message_code == h.value[4]
                      IN  IF RecvHasBody(slices_size)
                          THEN /\ pc' = [pc EXCEPT ![r] = "recv_slices"]
                               /\ loc' = [loc EXCEPT ![r].from = s,
                                                     ![r].header = o.buffer,
                                                     ![r].sender_rank = sender_rank,
                                                     ![r].slices_size = slices_size,
                                                     ![r].message_code = message_code]
                               /\ UNCHANGED <<ret, counts>>
                          ELSE Return(r, s, o.buffer, <<>>, <<>>,
                                      ReturnValue(sender_rank, message_code, None))
    /\ UNCHANGED <<pkg, built, sent, arg, out>>

\* recv_slices(slices_size=slices_size, src=sender_rank)
RecvSlices(r) ==
    /\ pc[r] = "recv_slices"
    /\ LET src == PinnedSource(loc[r].sender_rank, loc[r].src) IN
       \E s \in Sources(r, src) :
        /\ chan[s][r] # <<>>
        /\ chan' = [chan EXCEPT ![s][r] = Tail(@)]
        /\ ops' = [ops EXCEPT ![r] = Append(@, RecvOp("slices", loc[r].slices_size, src, s,
                                                   Head(chan[s][r])))]
        /\ \E o \in RecvOutcomes(loc[r].slices_size, Head(chan[s][r])) :
            IF ~o.ok
            THEN Raise(r, ChannelFailure)
            ELSE /\ pc' = [pc EXCEPT ![r] = "recv_content"]
                 /\ loc' = [loc EXCEPT ![r].slices = recv_slices(o.buffer)]
                 /\ UNCHANGED <<ret, counts>>
    /\ UNCHANGED <<pkg, built, sent, nrecv, arg, out>>

\* recv_content(slices, src=sender_rank), and the return.
RecvContent(r) ==
    /\ pc[r] = "recv_content"
    /\ LET src == PinnedSource(loc[r].sender_rank, loc[r].src)
           size == content_size(loc[r].slices)
       IN
       \E s \in Sources(r, src) :
        /\ chan[s][r] # <<>>
        /\ chan' = [chan EXCEPT ![s][r] = Tail(@)]
        /\ ops' = [ops EXCEPT ![r] = Append(@, RecvOp("content", size, src, s,
                                                   Head(chan[s][r])))]
        /\ \E o \in RecvOutcomes(size, Head(chan[s][r])) :
            IF ~o.ok
            THEN Raise(r, ChannelFailure)
            ELSE LET c == parse_content(loc[r].slices, o.buffer) IN
                 IF c.error # NoError
                 THEN Raise(r, c.error)
                 ELSE Return(r, loc[r].from, loc[r].header, loc[r].slices, o.buffer,
                             ReturnValue(loc[r].sender_rank, loc[r].message_code,
                                         Some(c.value)))
    /\ UNCHANGED <<pkg, built, sent, nrecv, arg, out>>

Next ==
    \/ \E r \in Ranks, b \in BuildInputs : Build(r, b.buffers, b.message_code)
    \/ \E r \in Ranks, dst \in Ranks : SendHeader(r, dst)
    \/ \E r \in Ranks : SendSlices(r)
    \/ \E r \in Ranks : SendContent(r)
    \/ \E r \in Ranks, src \in Ranks \cup {ANY} : RecvCall(r, src)
    \/ \E r \in Ranks : RecvHeader(r)
    \/ \E r \in Ranks : RecvSlices(r)
    \/ \E r \in Ranks : RecvContent(r)

Spec == Init /\ [][Next]_vars

\* One sending endpoint and one receiving endpoint.
Pair == [sender |-> 0, receiver |-> 2]

---------------------------------------------------------------------------
(* Two threads of one endpoint sending at the same time *)

\* The threads of the sending endpoint: both run at rank 0.
SendThreads == {p \in Procs : RankOf(p) = 0}

NextThreads ==
    \/ \E p \in SendThreads, b \in BuildInputs : Build(p, b.buffers, b.message_code)
    \/ \E p \in SendThreads, dst \in Ranks : SendHeader(p, dst)
    \/ \E p \in SendThreads : SendSlices(p)
    \/ \E p \in SendThreads : SendContent(p)
    \/ \E r \in Ranks, src \in {0, ANY} : RecvCall(r, src)
    \/ \E r \in Ranks : RecvHeader(r)
    \/ \E r \in Ranks : RecvSlices(r)
    \/ \E r \in Ranks : RecvContent(r)

SpecThreads == Init /\ [][NextThreads]_vars

---------------------------------------------------------------------------
(* Headers whose slice size was written by the caller *)

\* The values a caller writes into the slice size field of a header.
SliceSizes == {-1, 0, 2}

\* package.header[HEADER_SLICE_SIZE_IDX] = n, by the owner of the package
\* between two calls.
SetSliceSize(r, n) ==
    /\ pc[r] = "idle"
    /\ pkg[r] # NoPackage
    /\ pkg[r].header[HEADER_SLICE_SIZE_IDX] # n
    /\ pkg' = [pkg EXCEPT ![r].header[HEADER_SLICE_SIZE_IDX] = n]
    /\ UNCHANGED <<built, chan, pc, loc, ops, ret, sent, nrecv, counts, arg, out>>

NextSizes ==
    \/ \E b \in BuildInputs : Build(Pair.sender, b.buffers, b.message_code)
    \/ \E n \in SliceSizes : SetSliceSize(Pair.sender, n)
    \/ SendHeader(Pair.sender, Pair.receiver)
    \/ SendSlices(Pair.sender)
    \/ SendContent(Pair.sender)
    \/ \E src \in {Pair.sender, ANY} : RecvCall(Pair.receiver, src)
    \/ RecvHeader(Pair.receiver)
    \/ RecvSlices(Pair.receiver)
    \/ RecvContent(Pair.receiver)

SpecSizes == Init /\ [][NextSizes]_vars

---------------------------------------------------------------------------
(* Packages built with a sender rank chosen by the caller *)

NextOrigin ==
    \/ \E b \in BuildInputs, sender_rank \in Senders :
           BuildWith(Pair.sender, b.buffers, sender_rank, b.message_code)
    \/ SendHeader(Pair.sender, Pair.receiver)
    \/ SendSlices(Pair.sender)
    \/ SendContent(Pair.sender)
    \/ \E src \in {Pair.sender, ANY} : RecvCall(Pair.receiver, src)
    \/ RecvHeader(Pair.receiver)
    \/ RecvSlices(Pair.receiver)
    \/ RecvContent(Pair.receiver)

SpecOrigin == Init /\ [][NextOrigin]_vars

---------------------------------------------------------------------------
(* One sender and one receiver on a reliable channel, each call running on *)
(* once its next channel operation can complete                            *)

NextLive ==
    \/ \E b \in BuildInputs : Build(Pair.sender, b.buffers, b.message_code)
    \/ SendHeader(Pair.sender, Pair.receiver)
    \/ SendSlices(Pair.sender)
    \/ SendContent(Pair.sender)
    \/ \E src \in {Pair.sender, ANY} : RecvCall(Pair.receiver, src)
    \/ RecvHeader(Pair.receiver)
    \/ RecvSlices(Pair.receiver)
    \/ RecvContent(Pair.receiver)

\* A call that has started is not suspended for ever while its next dist.send
\* or dist.recv can complete.
SpecLive ==
    /\ Init
    /\ [][NextLive]_vars
    /\ WF_vars(SendSlices(Pair.sender))
    /\ WF_vars(SendContent(Pair.sender))
    /\ WF_vars(RecvHeader(Pair.receiver))
    /\ WF_vars(RecvSlices(Pair.receiver))
    /\ WF_vars(RecvContent(Pair.receiver))

---------------------------------------------------------------------------
(* Channel failures: a dist.send or a dist.recv raises *)

\* send_package(package, dst) when the dist.send of the header raises: the
\* header is already stamped, nothing is sent, the exception leaves the call.
SendHeaderFails(r, dst) ==
    /\ pc[r] = "idle"
    /\ pkg[r] # NoPackage
    /\ dst \in Receivers \ {RankOf(r)}
    /\ Serialized(r, dst)
    /\ Calls < MaxCalls
    /\ LET header == send_header(pkg[r].header, dst) IN
        /\ pkg' = [pkg EXCEPT ![r].header = header]
        /\ ops' = [ops EXCEPT ![r] = <<FailedOp("send_failed", "header",
                                                Len(header), dst)>>]
    /\ ret' = [ret EXCEPT ![r] = [NoRet EXCEPT !.kind = "error",
                                               !.error = ChannelFailure]]
    /\ counts' = [counts EXCEPT !.sends = @ + 1, !.raised = @ + 1]
    /\ UNCHANGED <<built, chan, pc, loc, sent, nrecv, arg, out>>

\* The dist.send of the slices or of the content raises.
SendBodyFails(r) ==
    /\ pc[r] \in {"send_slices", "send_content"}
    /\ LET tensor == IF pc[r] = "send_slices"
                     THEN send_slices(pkg[r].slices)
                     ELSE send_content(pkg[r].content)
           phase == IF pc[r] = "send_slices" THEN "slices" ELSE "content"
       IN  ops' = [ops EXCEPT ![r] = Append(@, FailedOp("send_failed", phase,
                                                       Len(tensor), loc[r].dst))]
    /\ Raise(r, ChannelFailure)
    /\ UNCHANGED <<pkg, built, chan, sent, nrecv, arg, out>>

\* The dist.recv of the header, of the slices or of the content raises.
RecvFails(r) ==
    /\ pc[r] \in {"recv_header", "recv_slices", "recv_content"}
    /\ ops' = [ops EXCEPT ![r] = Append(@,
                 CASE pc[r] = "recv_header" ->
                        FailedOp("recv_failed", "header", HEADER_SIZE, loc[r].src)
                   [] pc[r] = "recv_slices" ->
                        FailedOp("recv_failed", "slices", loc[r].slices_size,
                                 PinnedSource(loc[r].sender_rank, loc[r].src))
                   [] pc[r] = "recv_content" ->
                        FailedOp("recv_failed", "content", content_size(loc[r].slices),
                                 PinnedSource(loc[r].sender_rank, loc[r].src)))]
    /\ Raise(r, ChannelFailure)
    /\ UNCHANGED <<pkg, built, chan, sent, nrecv, arg, out>>

NextFail ==
    \/ \E b \in BuildInputs : Build(Pair.sender, b.buffers, b.message_code)
    \/ SendHeader(Pair.sender, Pair.receiver)
    \/ SendSlices(Pair.sender)
    \/ SendContent(Pair.sender)
    \/ \E src \in {Pair.sender, ANY} : RecvCall(Pair.receiver, src)
    \/ RecvHeader(Pair.receiver)
    \/ RecvSlices(Pair.receiver)
    \/ RecvContent(Pair.receiver)
    \/ SendHeaderFails(Pair.sender, Pair.receiver)
    \/ SendBodyFails(Pair.sender)
    \/ RecvFails(Pair.receiver)

SpecFail == Init /\ [][NextFail]_vars

---------------------------------------------------------------------------
(* Package's pure functions on their own: one input, one application *)

SeqsUpTo(S, n) == UNION {[1..k -> S] : k \in 0..n}

\* Non-empty numeric buffers, and ordered lists of them.
Buffers == SeqsUpTo(Values, MaxBufLen) \ {<<>>}

BufferLists == SeqsUpTo(Buffers, MaxBuffers)

\* Boundary lists and flat payloads, related or not.
SliceLists == SeqsUpTo(0..MaxBufLen, MaxBuffers)

Payloads == SeqsUpTo(Values, MaxBuffers * MaxBufLen)

ParseInputs ==
    {[kind |-> "buffers", buffers |-> b, slices |-> <<>>, content |-> <<>>] :
        b \in BufferLists}
    \cup
    {[kind |-> "raw", buffers |-> <<>>, slices |-> sl, content |-> c] :
        sl \in SliceLists, c \in Payloads}

InitParse ==
    /\ ProtoInit
    /\ arg \in ParseInputs
    /\ out = [kind |-> "none", result |-> Ok(<<>>)]

\* parse_content(boundaries_of(B), flatten(B)) for the list B in arg, the
\* boundaries and the payload being those of the package built from B.
RoundTrip ==
    /\ arg.kind = "buffers"
    /\ out.kind = "none"
    /\ LET p == build(Some(arg.buffers), 0, 7).value IN
        out' = [kind |-> "roundtrip", result |-> parse_content(p.slices, p.content)]
    /\ UNCHANGED <<protoVars, arg>>

\* parse_content on the boundaries and the payload in arg.
ParseContent ==
    /\ arg.kind = "raw"
    /\ out.kind = "none"
    /\ out' = [kind |-> "parse", result |-> parse_content(arg.slices, arg.content)]
    /\ UNCHANGED <<protoVars, arg>>

NextParse == RoundTrip \/ ParseContent

SpecParse == InitParse /\ [][NextParse]_vars

---------------------------------------------------------------------------
(* Claims *)

\* The package the receive at rank r took its header from: the k-th package
\* the rank it came from has sent to r, k being the number of headers r has
\* taken from that rank.
Received(r, from) == sent[from][r][nrecv[r][from]]

\* The result of the returned recv_package at rank r.
Result(r) ==
    [sender_rank  |-> ret[r].sender_rank,
     message_code |-> ret[r].message_code,
     content      |-> ret[r].content]

InRecvBody(r) == pc[r] \in {"recv_slices", "recv_content"}

\* C1 (end-to-end delivery): a package built at rank A from a non-empty list
\* of buffers with message code m and sent to B is returned by B's
\* recv_package(src=A) as (A, m, content), content being the original buffer
\* list: as many buffers, in the same order, each with the same elements.  No
\* recv_package raises.
C1_EndToEndDelivery ==
    \A r \in Ranks :
        /\ ret[r].kind # "error"
        /\ (ret[r].kind = "recv" /\ ret[r].src # ANY) =>
            LET p == Received(r, ret[r].src) IN
            ~p.content.is_none =>
                /\ ret[r].sender_rank = ret[r].src
                /\ ret[r].message_code = p.message_code
                /\ ~ret[r].content.is_none
                /\ Len(ret[r].content.value) = Len(p.content.value)
                /\ \A i \in 1..Len(p.content.value) :
                       ret[r].content.value[i] = p.content.value[i]

\* Rank 2 has received [[1,2,3],[4,5]] with message code 7 by recv_package(src=0).
C1_Witness ==
    /\ ret[2].kind = "recv"
    /\ ret[2].src = 0
    /\ Result(2) = [sender_rank |-> 0, message_code |-> 7,
                    content |-> Some(<<<<1, 2, 3>>, <<4, 5>>>>)]

\* C2 (header-only path): a package built from an empty or absent buffer list
\* has slice size 0 in its header; its receive returns the header's sender
\* rank and message code with content None after exactly one channel receive,
\* the header's, and never enters the slices or the content receive.
C2_HeaderOnlyPath ==
    \A r \in Ranks :
        /\ (pkg[r] # NoPackage /\ Expected(built[r]) = None) =>
               pkg[r].header[HEADER_SLICE_SIZE_IDX] = 0
        /\ InRecvBody(r) => Received(r, loc[r].from).content # None
        /\ (ret[r].kind = "recv" /\ Received(r, ret[r].from).content = None) =>
               /\ Result(r) = [sender_rank  |-> ret[r].header[HEADER_SENDER_RANK_IDX],
                               message_code |-> ret[r].header[HEADER_MESSAGE_CODE_IDX],
                               content      |-> None]
               /\ Len(ops[r]) = 1
               /\ ops[r][1].op = "recv"
               /\ ops[r][1].phase = "header"

\* Rank 2 has received the header-only package with message code 99 from rank 0.
C2_Witness ==
    /\ ret[2].kind = "recv"
    /\ built[0] = None
    /\ Result(2) = [sender_rank |-> 0, message_code |-> 99, content |-> None]

\* C3 (ordering): the k-th recv_package at a rank that takes its header from
\* sender s returns the sender rank, the message code and the content of the
\* k-th package s has sent to that rank, header-only or not.
C3_Ordering ==
    \A r \in Ranks :
        ret[r].kind = "recv" =>
            /\ nrecv[r][ret[r].from] <= Len(sent[ret[r].from][r])
            /\ Result(r) = Received(r, ret[r].from)

\* Rank 0 sent a package with content and then a header-only one to rank 2,
\* and rank 2's second receive has returned the second.
C3_Witness ==
    /\ Len(sent[0][2]) = 2
    /\ sent[0][2][1].content # None
    /\ sent[0][2][2].content = None
    /\ sent[0][2][1].message_code # sent[0][2][2].message_code
    /\ nrecv[2][0] = 2
    /\ ret[2].kind = "recv"
    /\ Result(2) = sent[0][2][2]

\* C4 (source pinning): the slices receive and the content receive of a
\* recv_package are issued with src equal to the sender rank decoded from the
\* header the call received, never with the wildcard.
C4_SourcePinning ==
    \A r \in Ranks : \A i \in 1..Len(ops[r]) :
        (ops[r][i].op = "recv" /\ ops[r][i].phase # "header") =>
            /\ ops[r][1].phase = "header"
            /\ ops[r][i].peer # ANY
            /\ ops[r][i].peer = parse_header(ops[r][1].tensor).value[1]

\* A recv_package called with the wildcard has issued all three receives.
C4_Witness ==
    \E r \in Ranks :
        /\ Len(ops[r]) = 3
        /\ ops[r][1].op = "recv"
        /\ ops[r][1].peer = ANY
        /\ ops[r][3].peer # ANY

\* C5 (no mis-pairing): a recv_package called with the wildcard while several
\* ranks send to the receiver takes its header, its slices and its content
\* from one rank, returns the sender rank, message code and content of one
\* package that rank has sent to it, and does not raise.
C5_NoMispairing ==
    \A r \in Ranks :
        /\ ~(ret[r].kind = "error" /\ ret[r].src = ANY)
        /\ (ret[r].kind = "recv" /\ ret[r].src = ANY) =>
            /\ \A i \in 1..Len(ops[r]) : ops[r][i].from = ret[r].from
            /\ ret[r].sender_rank = ret[r].from
            /\ \E k \in 1..Len(sent[ret[r].from][r]) :
                   sent[ret[r].from][r][k] = Result(r)

\* Ranks 0 and 1 have both sent a package with content to rank 2; a wildcard
\* receive at rank 2 has returned one while tensors of the other wait.
C5_Witness ==
    /\ Len(sent[0][2]) = 1
    /\ Len(sent[1][2]) = 1
    /\ ret[2].kind = "recv"
    /\ ret[2].src = ANY
    /\ ~ret[2].content.is_none
    /\ \E s \in Senders : s # ret[2].from /\ Len(chan[s][2]) >= 2

\* The call rank r is in, or has last finished, is a send_package.
IsSend(r) == ops[r] # <<>> /\ ops[r][1].op = "send"

\* C6 (send phase sequence): send_package(package, dst) first sends the header
\* (HEADER_SIZE elements) to dst; with slice size > 0 in the header it then
\* sends the slices (as many entries as the slice size) and after them the
\* content (as many elements as the slices sum to), both to dst; with slice
\* size 0 it sends nothing more.  It issues no other channel operation.
C6_SendPhases ==
    \A r \in Ranks :
        IsSend(r) =>
            LET n == Len(ops[r])
                header == ops[r][1].tensor
                dst == ops[r][1].peer
            IN  /\ ops[r][1].phase = "header"
                /\ ops[r][1].size = HEADER_SIZE
                /\ \A i \in 1..n : ops[r][i].op = "send" /\ ops[r][i].peer = dst
                /\ n <= 3
                /\ n >= 2 => /\ ops[r][2].phase = "slices"
                             /\ ops[r][2].size = header[HEADER_SLICE_SIZE_IDX]
                /\ n = 3 => /\ ops[r][3].phase = "content"
                            /\ ops[r][3].size = Sum(ops[r][2].tensor)
                /\ pc[r] # "idle" =>
                       /\ ops[r][1].tensor = pkg[r].header
                       /\ n >= 2 => ops[r][2].tensor = pkg[r].slices
                /\ IF header[HEADER_SLICE_SIZE_IDX] > 0
                   THEN /\ pc[r] = "send_slices" <=> n = 1
                        /\ pc[r] = "send_content" <=> n = 2
                        /\ pc[r] = "idle" <=> n = 3
                   ELSE n = 1 /\ pc[r] = "idle"

\* Rank 0 has returned from sending [[1,2,3],[4,5]] to rank 2 in three phases.
C6_Witness ==
    /\ IsSend(0)
    /\ pc[0] = "idle"
    /\ ret[0].kind = "send"
    /\ Len(ops[0]) = 3
    /\ ops[0][2].tensor = <<3, 2>>
    /\ ops[0][3].tensor = <<1, 2, 3, 4, 5>>
    /\ ops[0][3].peer = 2

\* C7 (receiver rank stamping): every header send_package(package, dst) sends
\* carries receiver_rank = dst, whatever the field held before the call, so
\* every header a rank R receives carries receiver_rank = R.
C7_ReceiverRankStamped ==
    \A r \in Ranks : \A i \in 1..Len(ops[r]) :
        ops[r][i].phase = "header" =>
            /\ ops[r][i].op = "send" =>
                   ops[r][i].tensor[HEADER_RECEIVER_RANK_IDX] = ops[r][i].peer
            /\ ops[r][i].op = "recv" =>
                   ops[r][i].tensor[HEADER_RECEIVER_RANK_IDX] = r

\* Rank 0 has sent one and the same package to rank 1 and then to rank 2, and
\* rank 2 has received its header.
C7_Witness ==
    /\ counts.builds = 1
    /\ Len(sent[0][1]) = 1
    /\ Len(sent[0][2]) = 1
    /\ IsSend(0)
    /\ ops[0][1].peer = 2
    /\ ret[2].kind = "recv"
    /\ ret[2].header[HEADER_RECEIVER_RANK_IDX] = 2

\* C8 (sum invariant): the slices of every package sum to the length of its
\* content, before and during its send; at the receiver the slices received
\* are as many as the header's slice size, the returned buffers have exactly
\* those element counts, and they sum to the length of the content received.
C8_SumInvariant ==
    \A r \in Ranks :
        /\ Sum(pkg[r].slices) = Len(pkg[r].content)
        /\ pc[r] = "recv_content" => Len(loc[r].slices) = loc[r].slices_size
        /\ (ret[r].kind = "recv" /\ ~ret[r].content.is_none) =>
               /\ Len(ret[r].slices) = ret[r].header[HEADER_SLICE_SIZE_IDX]
               /\ boundaries_of(ret[r].content.value) = ret[r].slices
               /\ Sum(ret[r].slices) = Len(ret[r].payload)

\* A receive has returned two buffers of 3 and 2 elements.
C8_Witness ==
    \E r \in Ranks :
        /\ ret[r].kind = "recv"
        /\ ret[r].slices = <<3, 2>>
        /\ Len(ret[r].payload) = 5
        /\ Len(ret[r].content.value) = 2

\* C9 (content round-trip): for an ordered list B of non-empty buffers,
\* parse_content(boundaries_of(B), flatten(B)) is B: as many buffers, the i-th
\* with boundaries[i] elements and equal to B[i], the slices consecutive.
C9_ContentRoundTrip ==
    out.kind = "roundtrip" =>
        /\ out.result.error = NoError
        /\ Len(out.result.value) = Len(arg.buffers)
        /\ \A i \in 1..Len(arg.buffers) :
               /\ Len(out.result.value[i]) = boundaries_of(arg.buffers)[i]
               /\ out.result.value[i] = arg.buffers[i]
        /\ flatten(out.result.value) = flatten(arg.buffers)

\* The list [[1,2],[2]] has gone through the round trip.
C9_Witness ==
    /\ out.kind = "roundtrip"
    /\ arg.buffers = <<<<1, 2>>, <<2>>>>
    /\ out.result.value = <<<<1, 2>>, <<2>>>>

Failed(o) == o.op \in {"send_failed", "recv_failed"}

\* The channel operations a header asks of a call: one, or three with slices.
Required(header) == IF header[HEADER_SLICE_SIZE_IDX] > 0 THEN 3 ELSE 1

\* C11 (error propagation without partial success): when a dist.send or a
\* dist.recv of send_package or recv_package fails, the call raises that error
\* at once: the failed operation is the call's last, none is retried, no later
\* phase is attempted and recv_package hands back no (sender_rank,
\* message_code, content).  A call that returns has completed all the phases
\* its header requires, none of them failed.
C11_ErrorPropagation ==
    \A r \in Ranks :
        LET n == Len(ops[r]) IN
        /\ \A i \in 1..n :
               Failed(ops[r][i]) =>
                   /\ i = n
                   /\ pc[r] = "idle"
                   /\ ret[r].kind \notin {"send", "recv"}
                   /\ ret[r].kind = "error" => ret[r].error = ChannelFailure
        /\ ret[r].kind = "error" =>
               /\ pc[r] = "idle"
               /\ n >= 1
               /\ ret[r].error = ChannelFailure =>
                      \/ Failed(ops[r][n])
                      \/ ops[r][n].size # Len(ops[r][n].tensor)
               /\ Result(r) = [sender_rank |-> -1, message_code |-> -1,
                               content |-> None]
        /\ ret[r].kind = "recv" =>
               /\ n = Required(ret[r].header)
               /\ \A i \in 1..n : ops[r][i].op = "recv"
        /\ ret[r].kind = "send" =>
               /\ n = Required(ops[r][1].tensor)
               /\ \A i \in 1..n : ops[r][i].op = "send"

\* A recv_package has raised ChannelFailure at its content receive, after the
\* header and the slices had arrived.
C11_Witness ==
    \E r \in Ranks :
        /\ ret[r].kind = "error"
        /\ Len(ops[r]) = 3
        /\ ops[r][2].op = "recv"
        /\ ops[r][3].op = "recv_failed"
        /\ ops[r][3].phase = "content"

\* C12 (concurrent sends to different destinations): when two threads of one
\* endpoint send their packages to different destinations at the same time,
\* then under every interleaving of their channel operations each
\* destination's recv_package returns exactly the package sent to it: the
\* header it took carries that destination as receiver_rank and the sender's
\* rank as sender_rank, and message code and content are those of the package
\* sent to it.  No recv_package raises.
C12_ConcurrentSends ==
    \A d \in Receivers :
        /\ ret[d].kind # "error"
        /\ InRecvBody(d) =>
               /\ loc[d].header[HEADER_RECEIVER_RANK_IDX] = d
               /\ loc[d].sender_rank = loc[d].from
        /\ ret[d].kind = "recv" =>
               /\ ret[d].header[HEADER_RECEIVER_RANK_IDX] = d
               /\ ret[d].sender_rank = ret[d].from
               /\ Result(d) = Received(d, ret[d].from)

\* Two threads of rank 0 have sent different packages, one to rank 1 and one
\* to rank 2, their sends overlapping: rank 1 has returned its package while
\* the other thread is still before its content send and rank 2 has taken the
\* header and the slices of its package.
C12_Witness ==
    \E p, q \in SendThreads :
        /\ p # q
        /\ built[p] # built[q]
        /\ Len(ops[p]) = 3 /\ ops[p][1].op = "send" /\ ops[p][1].peer = 1
        /\ pc[q] = "send_content" /\ loc[q].dst = 2
        /\ ops[p][1].tensor[HEADER_MESSAGE_CODE_IDX] # ops[q][1].tensor[HEADER_MESSAGE_CODE_IDX]
        /\ ret[1].kind = "recv"
        /\ ~ret[1].content.is_none
        /\ ret[1].message_code = ops[p][1].tensor[HEADER_MESSAGE_CODE_IDX]
        /\ pc[2] = "recv_content"

\* The call rank r is in, or has last finished, is a recv_package that has
\* issued a receive.
IsRecv(r) == ops[r] # <<>> /\ ops[r][1].op = "recv"

\* C13 (receive phase order and sizes): recv_package issues its receives
\* strictly in the order header, slices, content.  The header receive asks for
\* exactly HEADER_SIZE elements, the slices receive for exactly the slice size
\* decoded from the received header, and the content receive for exactly the
\* sum of the slices table that was received.
C13_ReceiveOrder ==
    \A r \in Ranks :
        /\ pc[r] = "recv_header" => ops[r] = <<>>
        /\ IsRecv(r) =>
            LET n == Len(ops[r])
                header == parse_header(ops[r][1].tensor).value
            IN  /\ n <= 3
                /\ \A i \in 1..n : ops[r][i].op = "recv"
                /\ ops[r][1].phase = "header"
                /\ ops[r][1].size = HEADER_SIZE
                /\ n >= 2 => /\ ops[r][2].phase = "slices"
                             /\ ops[r][2].size = header[HEADER_SLICE_SIZE_IDX]
                /\ n = 3 => /\ ops[r][3].phase = "content"
                            /\ ops[r][3].size = Sum(ops[r][2].tensor)
                /\ pc[r] = "recv_slices" => n = 1
                /\ pc[r] = "recv_content" => n = 2

\* Rank 2 has received a header with slice size 2, then the two-entry slices
\* table <<3, 2>>, then five elements of content.
C13_Witness ==
    /\ IsRecv(2)
    /\ Len(ops[2]) = 3
    /\ ops[2][1].tensor[HEADER_SLICE_SIZE_IDX] = 2
    /\ ops[2][2].size = 2
    /\ ops[2][2].tensor = <<3, 2>>
    /\ ops[2][3].size = 5
    /\ ops[2][3].tensor = <<1, 2, 3, 4, 5>>

\* C14 (sender and receiver agree on the number of phases): whatever integer
\* the slice size field of a header holds (zero, positive or negative), the
\* send_package that sent the header transmits as many tensors as the
\* recv_package that takes it consumes: 1 when the slice size is <= 0, 3 when
\* it is > 0.  So a recv_package enters the slices and content receives only
\* for a header with slice size > 0, every tensor taken as a header is a
\* header, and once all packages sent between two ranks have been received by
\* calls that returned, the channel between them is empty.
C14_PhaseAgreement ==
    LET s == Pair.sender
        d == Pair.receiver
    IN  /\ ret[s].kind = "send" =>
               Len(ops[s]) = (IF ops[s][1].tensor[HEADER_SLICE_SIZE_IDX] > 0
                              THEN 3 ELSE 1)
        /\ ret[d].kind = "recv" =>
               Len(ops[d]) = (IF ret[d].header[HEADER_SLICE_SIZE_IDX] > 0
                              THEN 3 ELSE 1)
        /\ InRecvBody(d) => loc[d].header[HEADER_SLICE_SIZE_IDX] > 0
        /\ counts.raised = 0 =>
               /\ IsRecv(d) =>
                      /\ Len(ops[d][1].tensor) = HEADER_SIZE
                      /\ ops[d][1].tensor[HEADER_RECEIVER_RANK_IDX] = d
               /\ (pc[s] = "idle" /\ pc[d] = "idle"
                     /\ nrecv[d][s] = Len(sent[s][d])) => chan[s][d] = <<>>

\* Two packages have gone from rank 0 to rank 2 and both calls of the second
\* pair have returned: its header carried slice size -1 for a package that has
\* slices and content, one tensor was sent and one consumed, and the channel
\* is empty.
C14_Witness ==
    LET s == Pair.sender
        d == Pair.receiver
    IN  /\ ret[s].kind = "send" /\ ret[d].kind = "recv"
        /\ pkg[s].slices # <<>>
        /\ ops[s][1].tensor[HEADER_SLICE_SIZE_IDX] = -1
        /\ ret[d].header[HEADER_SLICE_SIZE_IDX] = -1
        /\ Len(ops[s]) = 1 /\ Len(ops[d]) = 1
        /\ nrecv[d][s] = 2 /\ Len(sent[s][d]) = 2
        /\ counts.raised = 0
        /\ chan[s][d] = <<>>

C16_SendFrame ==
    [][\A r \in Procs :
          (counts'.builds = counts.builds /\ pkg[r] # NoPackage) =>
              /\ pkg'[r].slices = pkg[r].slices
              /\ pkg'[r].content = pkg[r].content
              /\ Len(pkg'[r].header) = Len(pkg[r].header)
              /\ \A i \in 1..Len(pkg[r].header) :
                     i # HEADER_RECEIVER_RANK_IDX =>
                         pkg'[r].header[i] = pkg[r].header[i]]_vars

\* Rank 0 has built [[1,2,3],[4,5]] once and sent that package to rank 1 and
\* then to rank 2; the second send sent the slices <<3, 2>> and the content
\* <<1,2,3,4,5>> again, and both ranks have returned the same content.
C16_Witness ==
    /\ counts.builds = 1
    /\ Len(sent[0][1]) = 1
    /\ Len(sent[0][2]) = 1
    /\ ret[0].kind = "send"
    /\ Len(ops[0]) = 3
    /\ ops[0][1].peer = 2
    /\ ops[0][2].tensor = <<3, 2>>
    /\ ops[0][3].tensor = <<1, 2, 3, 4, 5>>
    /\ pkg[0].header[HEADER_RECEIVER_RANK_IDX] = 2
    /\ ret[1].kind = "recv" /\ ret[2].kind = "recv"
    /\ ret[1].content = ret[2].content
    /\ ret[1].content = Some(<<<<1, 2, 3>>, <<4, 5>>>>)

\* C17 (completion of a matched pair): on a reliable channel, when rank A has
\* called send_package(package, B) for a built package and rank B has called
\* recv_package with src=A or without src, no other rank sending to B, then
\* both calls return: the send_package that has sent its header sends its
\* slices and content and returns, and the recv_package for which a header
\* has been sent takes its header and, if the header announces them, the
\* slices and the content, and returns its result.
C17_PairCompletes ==
    LET s == Pair.sender
        d == Pair.receiver
    IN  /\ (pc[s] \in {"send_slices", "send_content"})
               ~> (pc[s] = "idle" /\ ret[s].kind = "send")
        /\ ((pc[d] = "recv_header" /\ Len(sent[s][d]) > nrecv[d][s]) \/ InRecvBody(d))
               ~> (pc[d] = "idle" /\ ret[d].kind = "recv")

\* Rank 0 has returned from sending a package with slices and content to rank
\* 2, and rank 2 has returned from a recv_package without src that took all
\* three tensors.
C17_Witness ==
    LET s == Pair.sender
        d == Pair.receiver
    IN  /\ pc[s] = "idle" /\ ret[s].kind = "send"
        /\ Len(ops[s]) = 3
        /\ pc[d] = "idle" /\ ret[d].kind = "recv"
        /\ ret[d].src = ANY
        /\ Len(ops[d]) = 3
        /\ ~ret[d].content.is_none
        /\ chan[s][d] = <<>>

====
